---- MODULE Spec2Model ----
(***************************************************************************)
(* A model of MAC File Manager Pro (mac_file_manager_pro/file_manager.py): *)
(* the global media manager and the playback widgets, the thumbnail        *)
(* loaders with their cache, and the navigation of the two panes.          *)
(*                                                                         *)
(* Paths and file names are sequences of one-character strings, so that    *)
(* os.path.dirname, Path.suffix and str.lower are computed as the library  *)
(* computes them.                                                          *)
(***************************************************************************)
EXTENDS Integers, Sequences, FiniteSets, TLC

VARIABLES
    \* ---- GlobalMediaManager and the playback widgets
    widgets,               \* the preview widgets created so far: [kind, state]
    global_media_manager,  \* [current_media_player, current_gif_movie], 0 for None
    \* ---- FileManager
    current_directory,     \* pane -> left/right_current_directory
    current_view_mode,     \* pane -> left/right_current_view_mode
    folder_model,          \* pane -> rows of left/right_folder_model
    file_model,            \* pane -> rows of left/right_file_model
    folder_table_model,    \* pane -> rows of left/right_folder_table_model
    file_table_model,      \* pane -> rows of left/right_file_table_model
    folder_selector,       \* pane -> text of left/right_folder_selector
    search_box,            \* pane -> text of left/right_search_box
    sort_combo,            \* pane -> text of left/right_sort_combo
    views,                 \* pane -> the pane's folder view and file view
    history,               \* pane -> the pane's back stack
    forward,               \* pane -> the pane's forward stack
    bookmarks,             \* pane -> the pane's bookmarks
    thumbnail_cache,       \* path -> pixmap
    thumbnail_loaders,     \* path -> the loader registered for the path
    jobs,                  \* the ThumbnailLoader threads started so far
    \* ---- the handler that ran last, with what it returned
    last_call

mediaVars == <<widgets, global_media_manager>>
browseVars == <<current_directory, current_view_mode, folder_model,
                file_model, folder_table_model, file_table_model,
                folder_selector, search_box, sort_combo, views, history,
                forward, bookmarks, thumbnail_cache, thumbnail_loaders, jobs>>
vars == <<widgets, global_media_manager, current_directory,
          current_view_mode, folder_model, file_model, folder_table_model,
          file_table_model, folder_selector, search_box, sort_combo, views,
          history, forward, bookmarks, thumbnail_cache, thumbnail_loaders,
          jobs, last_call>>

(***************************************************************************)
(* Bounds of the model.                                                    *)
(***************************************************************************)
\* preview widgets created in one run
MaxWidgets == 3
\* ThumbnailLoader threads started in one run
MaxJobs == 2

None == "None"

(***************************************************************************)
(* Strings.                                                                *)
(***************************************************************************)
UpperToLower ==
    [c \in {"A","B","C","D","E","F","G","H","I","J","K","L","M","N","O","P",
            "Q","R","S","T","U","V","W","X","Y","Z"} |->
       CASE c = "A" -> "a" [] c = "B" -> "b" [] c = "C" -> "c" [] c = "D" -> "d"
         [] c = "E" -> "e" [] c = "F" -> "f" [] c = "G" -> "g" [] c = "H" -> "h"
         [] c = "I" -> "i" [] c = "J" -> "j" [] c = "K" -> "k" [] c = "L" -> "l"
         [] c = "M" -> "m" [] c = "N" -> "n" [] c = "O" -> "o" [] c = "P" -> "p"
         [] c = "Q" -> "q" [] c = "R" -> "r" [] c = "S" -> "s" [] c = "T" -> "t"
         [] c = "U" -> "u" [] c = "V" -> "v" [] c = "W" -> "w" [] c = "X" -> "x"
         [] c = "Y" -> "y" [] c = "Z" -> "z"]

\* str.lower()
Lower(s) ==
    [k \in 1..Len(s) |-> IF s[k] \in DOMAIN UpperToLower THEN UpperToLower[s[k]] ELSE s[k]]

\* str.rfind(c) + 1: the last position of c in s, 0 when there is none
RFind(s, c) ==
    LET at == {k \in 1..Len(s) : s[k] = c}
    IN  IF at = {} THEN 0 ELSE CHOOSE k \in at : \A m \in at : m <= k

\* Path(p).name: what follows the last separator
PathName(p) == SubSeq(p, RFind(p, "/") + 1, Len(p))

\* Path(p).suffix: the name from its last dot on, unless that dot starts or
\* ends the name
PathSuffix(p) ==
    LET name == PathName(p)
        i == RFind(name, ".")
    IN  IF 1 < i /\ i < Len(name) THEN SubSeq(name, i, Len(name)) ELSE <<>>

\* str.upper()
Upper(s) ==
    [k \in 1..Len(s) |->
        IF \E u \in DOMAIN UpperToLower : UpperToLower[u] = s[k]
        THEN CHOOSE u \in DOMAIN UpperToLower : UpperToLower[u] = s[k]
        ELSE s[k]]

DigitChars == <<"0", "1", "2", "3", "4", "5", "6", "7", "8", "9">>

\* the decimal digits of a natural number
RECURSIVE Digits(_)
Digits(n) ==
    IF n < 10 THEN <<DigitChars[n + 1]>>
    ELSE Digits(n \div 10) \o <<DigitChars[(n % 10) + 1]>>

\* the number a string of decimal digits denotes
RECURSIVE ParseDigits(_)
ParseDigits(s) ==
    IF s = << >> THEN 0
    ELSE 10 * ParseDigits(SubSeq(s, 1, Len(s) - 1))
         + (CHOOSE d \in 0..9 : DigitChars[d + 1] = s[Len(s)])

\* a number in two digits (dd, hh, mm of a date format)
Pad2(n) == IF n < 10 THEN <<"0">> \o Digits(n) ELSE Digits(n)

\* str.endswith
EndsWith(s, suffix) ==
    Len(s) >= Len(suffix) /\ SubSeq(s, Len(s) - Len(suffix) + 1, Len(s)) = suffix

\* the characters of the model in the order of their code points
Chars ==
    << " ", "*", ",", ".", "/", "0", "1", "2", "3", "4", "5", "6", "7", "8",
       "9", ":", "<", ">", "?", "A", "B", "C", "D", "E", "F", "G", "H", "I",
       "J", "K", "L", "M", "N", "O", "P", "Q", "R", "S", "T", "U", "V", "W",
       "X", "Y", "Z", "_", "a", "b", "c", "d", "e", "f", "g", "h", "i", "j",
       "k", "l", "m", "n", "o", "p", "q", "r", "s", "t", "u", "v", "w", "x",
       "y", "z" >>

\* the place of a character in that order
Ord(c) == CHOOSE i \in 1..Len(Chars) : Chars[i] = c

\* a string as the sequence of its characters' places: what str and QString
\* compare
Codes(s) == [k \in 1..Len(s) |-> Ord(s[k])]

\* a < b for two sequences of numbers, as Python and Qt compare strings
\* and tuples: at the first place they differ in, or a is a proper prefix
KeyLess(a, b) ==
    \E k \in 1..Len(b) :
        /\ k <= Len(a) + 1
        /\ \A m \in 1..(k - 1) : a[m] = b[m]
        /\ (k > Len(a) \/ a[k] < b[k])

\* list.sort(key=..., reverse=...) and std::stable_sort: the rows by their
\* keys (key[i] the key of rows[i]), rows of equal keys in the order they
\* had, also when reverse is set
StableSort(rows, key, reverse) ==
    LET n == Len(rows)
        Before(i, j) == IF reverse THEN KeyLess(key[j], key[i]) ELSE KeyLess(key[i], key[j])
        pos(i) == Cardinality({j \in 1..n : Before(j, i)})
                  + Cardinality({j \in 1..(i - 1) : ~Before(j, i) /\ ~Before(i, j)}) + 1
    IN  [p \in 1..n |-> rows[CHOOSE i \in 1..n : pos(i) = p]]

\* sub in s (Python's operator on two str)
Contains(sub, s) ==
    \E k \in 0..(Len(s) - Len(sub)) : SubSeq(s, k + 1, k + Len(sub)) = sub

(***************************************************************************)
(* FileManager.get_file_category                                           *)
(***************************************************************************)
video_exts ==
    { <<".","m","p","4">>, <<".","a","v","i">>, <<".","m","o","v">>,
      <<".","m","k","v">>, <<".","w","m","v">>, <<".","f","l","v">>,
      <<".","w","e","b","m">>, <<".","m","4","v">>, <<".","3","g","p">> }

audio_exts ==
    { <<".","m","p","3">>, <<".","w","a","v">>, <<".","f","l","a","c">>,
      <<".","a","a","c">>, <<".","o","g","g">>, <<".","m","4","a">>,
      <<".","w","m","a">>, <<".","a","i","f","f">> }

image_exts ==
    { <<".","j","p","g">>, <<".","j","p","e","g">>, <<".","p","n","g">>,
      <<".","b","m","p">>, <<".","t","i","f","f">>, <<".","w","e","b","p">>,
      <<".","s","v","g">> }

text_exts ==
    { <<".","t","x","t">>, <<".","m","d">>, <<".","p","y">>, <<".","j","s">>,
      <<".","h","t","m","l">>, <<".","c","s","s">>, <<".","j","s","o","n">>,
      <<".","x","m","l">>, <<".","c","s","v">>, <<".","l","o","g">>,
      <<".","i","n","i">>, <<".","c","f","g">>, <<".","c","o","n","f">> }

archive_exts ==
    { <<".","z","i","p">>, <<".","t","a","r">>, <<".","t","a","r",".","g","z">>,
      <<".","t","g","z">>, <<".","r","a","r">>, <<".","7","z">> }

html_exts == { <<".","h","t","m","l">>, <<".","h","t","m">> }

doc_exts ==
    { <<".","p","d","f">>, <<".","d","o","c">>, <<".","d","o","c","x">>,
      <<".","r","t","f">>, <<".","x","l","s">>, <<".","x","l","s","x">>,
      <<".","p","p","t">>, <<".","p","p","t","x">> }

get_file_category(file_path) ==
    LET file_ext == Lower(PathSuffix(file_path))
    IN  IF file_ext \in video_exts THEN "video"
        ELSE IF file_ext \in audio_exts THEN "audio"
        ELSE IF file_ext = <<".","g","i","f">> THEN "gif"
        ELSE IF file_ext \in image_exts THEN "image"
        ELSE IF file_ext \in text_exts THEN "text"
        ELSE IF file_ext \in archive_exts THEN "archive"
        ELSE IF file_ext \in html_exts THEN "html"
        ELSE IF file_ext \in doc_exts THEN "document"
        ELSE "other"

(***************************************************************************)
(* GlobalMediaManager, VideoPreviewWidget, AudioPreviewWidget,             *)
(* GIFPreviewWidget.  A widget is [kind, state, path]: the state of a      *)
(* video or audio widget is its QMediaPlayer's (StoppedState, PlayingState,*)
(* PausedState), the state of a GIF widget its QMovie's (NotRunning,       *)
(* Paused, Running).  A handle is the widget's index in widgets, and 0     *)
(* stands for None where a handle is expected.                             *)
(***************************************************************************)
\* the files a preview is asked for
PreviewFiles ==
    { <<"/","h","/","m",".","m","p","4">>,
      <<"/","h","/","s",".","M","P","3">>,
      <<"/","h","/","a",".","g","i","f">>,
      <<"/","h","/","n",".","t","x","t">>,
      <<"/","h","/","i",".","H","T","M","L">>,
      <<"/","h","/","j",".","h","t","m">>,
      <<"/","h","/","x",".","t","a","r",".","g","z">> }

Handles == 1..Len(widgets)

IsPlaying(w) ==
    \/ w.kind \in {"video", "audio"} /\ w.state = "PlayingState"
    \/ w.kind = "gif" /\ w.state = "Running"

\* the handles whose playback is running
Running == {h \in Handles : IsPlaying(widgets[h])}

\* QMovie.setPaused(paused) on a movie in state s
MovieSetPaused(s, paused) ==
    IF paused
    THEN IF s = "NotRunning" THEN s ELSE "Paused"
    ELSE "Running"

\* GlobalMediaManager.stop_current_media: the widgets and the manager after it
stop_current_media(ws, mgr) ==
    LET mp == mgr.current_media_player
        gm == mgr.current_gif_movie
        ws1 == IF mp # 0 THEN [ws EXCEPT ![mp].state = "StoppedState"] ELSE ws
        ws2 == IF gm # 0
               THEN [ws1 EXCEPT ![gm].state = MovieSetPaused(ws1[gm].state, TRUE)]
               ELSE ws1
    IN  [widgets |-> ws2,
         mgr |-> [current_media_player |-> 0, current_gif_movie |-> 0],
         stopped |-> (IF mp # 0 THEN {mp} ELSE {}) \cup (IF gm # 0 THEN {gm} ELSE {})]

\* register_media_player storing the player without stopping what plays
register_media_player_keeps(ws, mgr, media_player) ==
    [widgets |-> ws,
     mgr |-> [mgr EXCEPT !.current_media_player = media_player],
     stopped |-> {}]

\* GlobalMediaManager.register_media_player
register_media_player(ws, mgr, media_player) ==
    LET s == stop_current_media(ws, mgr)
    IN  [s EXCEPT !.mgr.current_media_player = media_player]

\* GlobalMediaManager.register_gif_movie
register_gif_movie(ws, mgr, movie) ==
    LET s == stop_current_media(ws, mgr)
    IN  [s EXCEPT !.mgr.current_gif_movie = movie]

NoCall ==
    [op |-> "init", arg |-> 0, rejected |-> FALSE, ret |-> None,
     hits |-> {}, stopped |-> {}, loads |-> 0]

\* FileManager.create_preview_widget: the constructor of the widget of the
\* file's category runs; GIFPreviewWidget.setup_ui starts its movie
create_preview_widget(file_path) ==
    /\ Len(widgets) < MaxWidgets
    /\ LET category == get_file_category(file_path)
       IN  /\ widgets' =
                 IF category \in {"video", "audio"}
                 THEN Append(widgets, [kind |-> category, state |-> "StoppedState",
                                       path |-> file_path])
                 ELSE IF category = "gif"
                 THEN Append(widgets, [kind |-> "gif", state |-> "Running",
                                       path |-> file_path])
                 ELSE Append(widgets, [kind |-> category, state |-> None,
                                       path |-> file_path])
           /\ last_call' = [NoCall EXCEPT !.op = "create_preview_widget",
                                          !.arg = Len(widgets) + 1]
    /\ UNCHANGED global_media_manager

\* VideoPreviewWidget.toggle_playback and AudioPreviewWidget.toggle_playback
toggle_playback(h) ==
    /\ widgets[h].kind \in {"video", "audio"}
    /\ IF widgets[h].state = "PlayingState"
       THEN /\ widgets' = [widgets EXCEPT ![h].state = "PausedState"]
            /\ UNCHANGED global_media_manager
            /\ last_call' = [NoCall EXCEPT !.op = "toggle_playback", !.arg = h]
       ELSE LET r == register_media_player(widgets, global_media_manager, h)
            IN  /\ widgets' = [r.widgets EXCEPT ![h].state = "PlayingState"]
                /\ global_media_manager' = r.mgr
                /\ last_call' = [NoCall EXCEPT !.op = "toggle_playback", !.arg = h,
                                               !.ret = "registered",
                                               !.stopped = r.stopped]

\* GIFPreviewWidget.toggle_animation
toggle_animation(h) ==
    /\ widgets[h].kind = "gif"
    /\ IF widgets[h].state = "Running"
       THEN /\ widgets' = [widgets EXCEPT ![h].state = MovieSetPaused(widgets[h].state, TRUE)]
            /\ UNCHANGED global_media_manager
            /\ last_call' = [NoCall EXCEPT !.op = "toggle_animation", !.arg = h]
       ELSE LET r == register_gif_movie(widgets, global_media_manager, h)
            IN  /\ widgets' = [r.widgets EXCEPT ![h].state =
                                   MovieSetPaused(r.widgets[h].state, FALSE)]
                /\ global_media_manager' = r.mgr
                /\ last_call' = [NoCall EXCEPT !.op = "toggle_animation", !.arg = h,
                                               !.ret = "registered",
                                               !.stopped = r.stopped]

CreatePreviewWidget ==
    /\ \E f \in PreviewFiles : create_preview_widget(f)
    /\ UNCHANGED browseVars

TogglePlayback ==
    /\ \E h \in Handles : toggle_playback(h)
    /\ UNCHANGED browseVars

ToggleAnimation ==
    /\ \E h \in Handles : toggle_animation(h)
    /\ UNCHANGED browseVars


(***************************************************************************)
(* The file system.  QDir.homePath() is /h; /h holds the directory s and   *)
(* the file p.png, /h/s holds the file m.mp4.                              *)
(***************************************************************************)
Panes == {"Left", "Right"}

Root == <<"/">>
Home == <<"/","h">>
Sub == <<"/","h","/","s">>

\* a hidden directory: QDir lists it nowhere, a typed path reaches it
Docs == <<"/",".","d">>

Dirs == {Root, Home, Sub, Docs}

\* the texts the user leaves in a folder selector
TypedTexts ==
    { Sub,
      <<"/","h","/","s","/">>,                \* a directory, trailing separator
      <<"/","h","/","p",".","p","n","g">>,    \* a regular file
      <<"/","x">> }                           \* nothing of that name

\* a path without its trailing separators, as stat and QDir read it
RECURSIVE StripSeparators(_)
StripSeparators(p) ==
    IF Len(p) > 1 /\ p[Len(p)] = "/" THEN StripSeparators(SubSeq(p, 1, Len(p) - 1)) ELSE p

\* the regular files of the file system
AllFiles ==
    { <<"/","h","/","p",".","p","n","g">>,
      <<"/","h","/","s","/","m",".","m","p","4">>,
      <<"/",".","d","/","a",".","t","x","t">>,
      <<"/",".","d","/","A",".","t","x","t">>,
      <<"/",".","d","/","B",".","m","d">> }

\* os.path.exists in the place of os.path.isdir: a regular file passes
isdir_exists(p) == StripSeparators(p) \in Dirs \cup AllFiles

\* os.path.isdir
isdir(p) == StripSeparators(p) \in Dirs

\* str.rstrip('/')
RECURSIVE RStripSlash(_)
RStripSlash(p) ==
    IF Len(p) > 0 /\ p[Len(p)] = "/" THEN RStripSlash(SubSeq(p, 1, Len(p) - 1)) ELSE p

\* os.path.dirname (posixpath): the head up to the last separator, without
\* its trailing separators unless it is made of separators only
dirname(p) ==
    LET head == SubSeq(p, 1, RFind(p, "/"))
    IN  IF head # <<>> /\ \E k \in 1..Len(head) : head[k] # "/"
        THEN RStripSlash(head)
        ELSE head

\* QFileInfo.filePath of the entry called name in QDir(path)
EntryPath(path, name) ==
    LET d == StripSeparators(path)
    IN  IF d = Root THEN d \o name ELSE d \o <<"/">> \o name

\* the names QDir(path).entryInfoList() lists with the filter Dirs, in order
DirNames(path) ==
    LET d == StripSeparators(path)
    IN  IF d = Root THEN << <<"h">> >>
        ELSE IF d = Home THEN << <<"s">> >>
        ELSE << >>

\* the names QDir(path).entryInfoList() lists with the filter Files, in order
FileNames(path) ==
    LET d == StripSeparators(path)
    IN  IF d = Home THEN << <<"p",".","p","n","g">> >>
        ELSE IF d = Sub THEN << <<"m",".","m","p","4">> >>
        ELSE IF d = Docs
        THEN << <<"a",".","t","x","t">>, <<"A",".","t","x","t">>, <<"B",".","m","d">> >>
        ELSE << >>

\* QFileInfo.size of a regular file, in bytes
FileSize(file_path) ==
    CASE file_path = <<"/","h","/","p",".","p","n","g">> -> 1280
      [] file_path = <<"/","h","/","s","/","m",".","m","p","4">> -> 5242880
      [] file_path = <<"/",".","d","/","a",".","t","x","t">> -> 300
      [] file_path = <<"/",".","d","/","A",".","t","x","t">> -> 20
      [] OTHER -> 0

\* QFileInfo.lastModified of an entry: <<year, month, day, hour, minute>>
LastModified(file_path) ==
    CASE file_path = <<"/","h","/","p",".","p","n","g">> -> <<2024, 3, 10, 9, 30>>
      [] file_path = <<"/","h","/","s","/","m",".","m","p","4">> -> <<2023, 12, 25, 18, 0>>
      [] file_path = <<"/",".","d","/","a",".","t","x","t">> -> <<2024, 4, 1, 10, 0>>
      [] file_path = <<"/",".","d","/","A",".","t","x","t">> -> <<2024, 1, 15, 10, 0>>
      [] file_path = <<"/",".","d","/","B",".","m","d">> -> <<2025, 1, 5, 8, 5>>
      [] OTHER -> <<2024, 2, 2, 12, 0>>

MonthNames ==
    << <<"J","a","n">>, <<"F","e","b">>, <<"M","a","r">>, <<"A","p","r">>,
       <<"M","a","y">>, <<"J","u","n">>, <<"J","u","l">>, <<"A","u","g">>,
       <<"S","e","p">>, <<"O","c","t">>, <<"N","o","v">>, <<"D","e","c">> >>

\* QDateTime.toString("MMM dd, yyyy hh:mm")
DateToString(t) ==
    MonthNames[t[2]] \o <<" ">> \o Pad2(t[3]) \o <<",", " ">> \o Digits(t[1])
        \o <<" ">> \o Pad2(t[4]) \o <<":">> \o Pad2(t[5])

(***************************************************************************)
(* ThumbnailLoader.run                                                     *)
(***************************************************************************)
\* the frames of a video file, by mean and standard deviation
DarkFrame == [mean |-> 0, std |-> 0]
FlatFrame == [mean |-> 200, std |-> 0]
LitFrame == [mean |-> 100, std |-> 40]
FrameInputs == { << >>, <<DarkFrame, FlatFrame>>, <<DarkFrame, LitFrame>> }

max_frames == 30
MeanThreshold == 10
StdThreshold == 5

\* whether the module's imports define QImage
QImageImported == FALSE

thumb_image_exts ==
    { <<".","j","p","g">>, <<".","j","p","e","g">>, <<".","p","n","g">>,
      <<".","g","i","f">>, <<".","b","m","p">>, <<".","t","i","f","f">>,
      <<".","w","e","b","p">> }

\* the frame loop: the 1-based index of the first of the first max_frames
\* frames that is neither dark nor flat, 0 when there is none
FirstGoodFrame(frames) ==
    LET n == IF Len(frames) < max_frames THEN Len(frames) ELSE max_frames
        good == {i \in 1..n : frames[i].mean > MeanThreshold /\ frames[i].std > StdThreshold}
    IN  IF good = {} THEN 0 ELSE CHOOSE i \in good : \A k \in good : i <= k

\* the branch run() takes for file_path: cv2_ok says whether cv2 and numpy
\* import, frames is the video's content, pix_ok whether QPixmap(file_path)
\* loads
run(file_path, cv2_ok, frames, pix_ok) ==
    LET file_ext == Lower(PathSuffix(file_path))
        image == IF file_ext \in thumb_image_exts
                 THEN IF pix_ok THEN "image" ELSE "null_pixmap"
                 ELSE "default"
    IN  IF ~cv2_ok THEN "exception"
        ELSE IF file_ext \in video_exts
        THEN IF FirstGoodFrame(frames) # 0
             THEN IF QImageImported THEN "frame" ELSE "exception"
             ELSE image
        ELSE image

\* the pixmap run() emits in each branch: the scaled frame, the scaled image,
\* the gray icon with the rectangle and the sign drawn on it, and in the
\* handler of an exception the gray icon alone
Emitted(branch) ==
    CASE branch = "frame" -> "scaled_frame"
      [] branch = "image" -> "scaled_image"
      [] branch = "null_pixmap" -> "default_icon"
      [] branch = "default" -> "default_icon"
      [] branch = "exception" -> "gray_icon"

(***************************************************************************)
(* FileManager.  The handlers are written over a record S of the fields    *)
(* they read and write; S.hits are the paths load_thumbnail answered from  *)
(* the cache and S.started the number of loaders it started since the      *)
(* handler began, S.icon the icon of the item being built, S.loads the     *)
(* number of times the handler enumerated a pane's directory.              *)
(***************************************************************************)
Put(f, k, v) == [x \in DOMAIN f \cup {k} |-> IF x = k THEN v ELSE f[x]]
Drop(f, k) == [x \in DOMAIN f \ {k} |-> f[x]]

Fields ==
    [current_directory |-> current_directory,
     current_view_mode |-> current_view_mode,
     folder_model |-> folder_model,
     file_model |-> file_model,
     folder_table_model |-> folder_table_model,
     file_table_model |-> file_table_model,
     folder_selector |-> folder_selector,
     search_box |-> search_box,
     sort_combo |-> sort_combo,
     views |-> views,
     thumbnail_cache |-> thumbnail_cache,
     thumbnail_loaders |-> thumbnail_loaders,
     jobs |-> jobs,
     hits |-> {},
     started |-> 0,
     icon |-> None,
     ret |-> None,
     loads |-> 0]

\* a ThumbnailLoader(file_path, 128) that was started: running until run()
\* emits thumbnail_loaded, emitted (in the branch it took) until the UI
\* thread handles the signal, delivered after that
NewLoader(file_path) ==
    [path |-> file_path, state |-> "running", branch |-> None, deleted |-> FALSE]

\* load_thumbnail taking the cached pixmap with dict.pop in the place of a
\* subscript: the entry leaves the cache
load_thumbnail_pops(S, file_path) ==
    IF file_path \in DOMAIN S.thumbnail_cache
    THEN [S EXCEPT !.icon = S.thumbnail_cache[file_path],
                   !.hits = @ \cup {file_path},
                   !.thumbnail_cache = Drop(@, file_path)]
    ELSE IF isdir(file_path)
    THEN S
    ELSE [S EXCEPT !.jobs = Append(@, NewLoader(file_path)),
                   !.thumbnail_loaders = Put(@, file_path, Len(S.jobs) + 1),
                   !.started = @ + 1]

\* load_thumbnail without the look into the cache
load_thumbnail_uncached(S, file_path) ==
    IF isdir(file_path)
    THEN S
    ELSE [S EXCEPT !.jobs = Append(@, NewLoader(file_path)),
                   !.thumbnail_loaders = Put(@, file_path, Len(S.jobs) + 1),
                   !.started = @ + 1]

\* FileManager.load_thumbnail: S after it, S.icon the icon it set on the item
load_thumbnail(S, file_path) ==
    IF file_path \in DOMAIN S.thumbnail_cache
    THEN [S EXCEPT !.icon = S.thumbnail_cache[file_path],
                   !.hits = @ \cup {file_path}]
    ELSE IF isdir(file_path)
    THEN S
    ELSE [S EXCEPT !.jobs = Append(@, NewLoader(file_path)),
                   !.thumbnail_loaders = Put(@, file_path, Len(S.jobs) + 1),
                   !.started = @ + 1]

\* FileManager.load_folders_to_model
load_folders_to_model(S, pane, path) ==
    LET names == DirNames(path)
    IN  [S EXCEPT !.folder_model[pane] =
             [k \in 1..Len(names) |->
                 [text |-> names[k], path |-> EntryPath(path, names[k]),
                  icon |-> "SP_DirIcon"]]]

\* the entry loop of load_files_to_model from entry k on; it reads the LEFT
\* pane's view mode whatever pane the model belongs to
RECURSIVE FileEntries(_, _, _, _, _)
FileEntries(S, pane, path, names, k) ==
    IF k > Len(names) THEN S
    ELSE LET fp == EntryPath(path, names[k])
             S0 == [S EXCEPT !.icon = "SP_FileIcon"]
             S1 == IF S.current_view_mode["Left"] = "thumbnail"
                   THEN load_thumbnail(S0, fp)
                   ELSE S0
             item == [text |-> names[k], path |-> fp, icon |-> S1.icon]
         IN  FileEntries([S1 EXCEPT !.file_model[pane] = Append(@, item)],
                         pane, path, names, k + 1)

\* FileManager.load_files_to_model
load_files_to_model(S, pane, path) ==
    FileEntries([S EXCEPT !.file_model[pane] = << >>], pane, path,
                FileNames(path), 1)

\* the divisors of format_file_size's units B, KB, MB, GB (the sizes of the
\* model stay below the TB)
UnitSizes == <<1, 1024, 1048576, 1073741824>>
size_names == << <<"B">>, <<"K","B">>, <<"M","B">>, <<"G","B">> >>

\* FileManager.format_file_size: the size in the largest unit that leaves
\* it at 1 or above, with one decimal (rounded to the nearest, a tie to the
\* even digit)
format_file_size(size_bytes) ==
    IF size_bytes = 0 THEN <<"0", " ", "B">>
    ELSE LET i == CHOOSE k \in 1..4 :
                      /\ (k = 1 \/ size_bytes >= UnitSizes[k])
                      /\ (k = 4 \/ size_bytes < UnitSizes[k + 1])
             q == (size_bytes * 10) \div UnitSizes[i]
             r == (size_bytes * 10) % UnitSizes[i]
             tenths == IF 2 * r > UnitSizes[i] \/ (2 * r = UnitSizes[i] /\ q % 2 = 1)
                       THEN q + 1 ELSE q
         IN  Digits(tenths \div 10) \o <<".">> \o Digits(tenths % 10)
                 \o <<" ">> \o size_names[i]

\* FileManager.get_file_type
get_file_type(filename) ==
    IF \E k \in 1..Len(filename) : filename[k] = "."
    THEN LET ext == Lower(SubSeq(filename, RFind(filename, ".") + 1, Len(filename)))
         IN  Upper(ext) \o <<" ", "F", "i", "l", "e">>
    ELSE <<"F", "i", "l", "e">>

DirSizeText == <<"<", "D", "I", "R", ">">>

\* FileManager.load_folders_to_table_model
load_folders_to_table_model(S, pane, path) ==
    LET names == DirNames(path)
    IN  [S EXCEPT !.folder_table_model[pane] =
             [k \in 1..Len(names) |->
                 [name |-> names[k], size |-> DirSizeText,
                  file_type |-> <<"F", "o", "l", "d", "e", "r">>,
                  date_modified |-> DateToString(LastModified(EntryPath(path, names[k]))),
                  path |-> EntryPath(path, names[k])]]]

\* FileManager.load_files_to_table_model
load_files_to_table_model(S, pane, path) ==
    LET names == FileNames(path)
    IN  [S EXCEPT !.file_table_model[pane] =
             [k \in 1..Len(names) |->
                 [name |-> names[k],
                  size |-> format_file_size(FileSize(EntryPath(path, names[k]))),
                  file_type |-> get_file_type(names[k]),
                  date_modified |-> DateToString(LastModified(EntryPath(path, names[k]))),
                  path |-> EntryPath(path, names[k])]]]

\* FileManager.load_left_directory and load_right_directory.  Setting the
\* selector's text to a new text emits currentTextChanged, which runs
\* on_folder_selector_changed, which loads the directory again.
RECURSIVE load_directory(_, _, _)
RECURSIVE on_folder_selector_changed(_, _, _)
load_directory(S, pane, path) ==
    IF ~isdir(path) THEN S
    ELSE LET S1 == [S EXCEPT !.current_directory[pane] = path,
                             !.loads = @ + 1]
             S2 == load_folders_to_model(S1, pane, path)
             S3 == load_files_to_model(S2, pane, path)
             S4 == load_folders_to_table_model(S3, pane, path)
             S5 == load_files_to_table_model(S4, pane, path)
         IN  IF S5.folder_selector[pane] # path
             THEN on_folder_selector_changed(
                      [S5 EXCEPT !.folder_selector[pane] = path], pane, path)
             ELSE S5

\* FileManager.on_folder_selector_changed
on_folder_selector_changed(S, pane, text) ==
    IF isdir(text) THEN load_directory(S, pane, text) ELSE S

\* the fields of S become the next state
Commit(S) ==
    /\ Len(S.jobs) <= MaxJobs
    /\ current_directory' = S.current_directory
    /\ current_view_mode' = S.current_view_mode
    /\ folder_model' = S.folder_model
    /\ file_model' = S.file_model
    /\ folder_table_model' = S.folder_table_model
    /\ file_table_model' = S.file_table_model
    /\ folder_selector' = S.folder_selector
    /\ search_box' = S.search_box
    /\ sort_combo' = S.sort_combo
    /\ views' = S.views
    /\ thumbnail_cache' = S.thumbnail_cache
    /\ thumbnail_loaders' = S.thumbnail_loaders
    /\ jobs' = S.jobs
    /\ UNCHANGED <<history, forward, bookmarks, mediaVars>>

\* the record of a handler of the panes: rejected says that the handler was
\* given a path that is no directory
Call(op, rejected, S) ==
    [NoCall EXCEPT !.op = op, !.rejected = rejected, !.ret = S.ret, !.hits = S.hits,
                   !.loads = S.loads]

\* the rows a click in the pane's folder view can land on: the table model's
\* where a table view stands in the splitter, the list model's otherwise
FolderRows(pane) ==
    IF views[pane]["folder"].shown = "table_view"
    THEN folder_table_model[pane]
    ELSE folder_model[pane]

\* FileManager.on_left_folder_clicked and on_right_folder_clicked
on_folder_clicked(pane, row) ==
    LET folder_path == FolderRows(pane)[row].path
        S == load_directory(Fields, pane, folder_path)
    IN  /\ Commit(S)
        /\ last_call' = Call("on_folder_clicked", StripSeparators(folder_path) \notin Dirs, S)

\* the user edits the pane's folder selector: currentTextChanged runs
\* FileManager.on_folder_selector_changed
FolderSelectorEdited(pane, text) ==
    LET S == on_folder_selector_changed(
                 [Fields EXCEPT !.folder_selector[pane] = text], pane, text)
    IN  /\ text # folder_selector[pane]
        /\ Commit(S)
        /\ last_call' = Call("on_folder_selector_changed", StripSeparators(text) \notin Dirs, S)

\* go_up without the comparison of the parent with the current path
go_up_always(pane) ==
    LET current_path == current_directory[pane]
        parent_path == dirname(current_path)
        S == load_directory(Fields, pane, parent_path)
    IN  /\ Commit(S)
        /\ last_call' = Call("go_up", parent_path # current_path
                                 /\ StripSeparators(parent_path) \notin Dirs, S)

\* FileManager.go_up
go_up(pane) ==
    LET current_path == current_directory[pane]
        parent_path == dirname(current_path)
        S == IF parent_path # current_path
             THEN load_directory(Fields, pane, parent_path)
             ELSE Fields
    IN  /\ Commit(S)
        /\ last_call' = Call("go_up", parent_path # current_path
                                 /\ StripSeparators(parent_path) \notin Dirs, S)

\* FileManager.go_back over the fields: it writes a line to the log, and
\* stores or reads no history
GoBackFields(S, pane) == S

\* FileManager.go_forward over the fields: it writes a line to the log
GoForwardFields(S, pane) == S

\* FileManager.go_back
go_back(pane) ==
    LET S == GoBackFields(Fields, pane)
    IN  /\ Commit(S)
        /\ last_call' = Call("go_back", FALSE, S)

\* FileManager.go_forward
go_forward(pane) ==
    LET S == GoForwardFields(Fields, pane)
    IN  /\ Commit(S)
        /\ last_call' = Call("go_forward", FALSE, S)

\* whether float(s) accepts the text: digits with at most one point and at
\* most one decimal (the texts format_file_size writes)
IsFloat(s) ==
    LET dot == RFind(s, ".")
        whole == IF dot = 0 THEN s ELSE SubSeq(s, 1, dot - 1)
        frac == IF dot = 0 THEN << >> ELSE SubSeq(s, dot + 1, Len(s))
        IsDigits(t) == \A k \in 1..Len(t) : \E d \in 1..10 : DigitChars[d] = t[k]
    IN  s # << >> /\ IsDigits(whole) /\ IsDigits(frac) /\ Len(frac) <= 1

\* float(s) times 10
Float10(s) ==
    LET dot == RFind(s, ".")
    IN  IF dot = 0 THEN 10 * ParseDigits(s)
        ELSE 10 * ParseDigits(SubSeq(s, 1, dot - 1)) + ParseDigits(SubSeq(s, dot + 1, Len(s)))

\* _parse_size with the key 0 for a folder
_parse_size_dir_zero(size_str) ==
    IF size_str = DirSizeText THEN 0
    ELSE LET Scaled(n, unit) ==
                 LET t == SubSeq(size_str, 1, Len(size_str) - n)
                 IN  IF IsFloat(t) THEN Float10(t) * unit ELSE 0
         IN  IF EndsWith(size_str, <<" ", "B">>) THEN Scaled(2, 1)
             ELSE IF EndsWith(size_str, <<" ", "K", "B">>) THEN Scaled(3, UnitSizes[2])
             ELSE IF EndsWith(size_str, <<" ", "M", "B">>) THEN Scaled(3, UnitSizes[3])
             ELSE IF EndsWith(size_str, <<" ", "G", "B">>) THEN Scaled(3, UnitSizes[4])
             ELSE Scaled(0, 1)

\* FileTableModel._parse_size, times 10: -1 for a folder, the number of
\* bytes the text denotes, 0 when float() raises
_parse_size(size_str) ==
    IF size_str = DirSizeText THEN -10
    ELSE LET Scaled(n, unit) ==
                 LET t == SubSeq(size_str, 1, Len(size_str) - n)
                 IN  IF IsFloat(t) THEN Float10(t) * unit ELSE 0
         IN  IF EndsWith(size_str, <<" ", "B">>) THEN Scaled(2, 1)
             ELSE IF EndsWith(size_str, <<" ", "K", "B">>) THEN Scaled(3, UnitSizes[2])
             ELSE IF EndsWith(size_str, <<" ", "M", "B">>) THEN Scaled(3, UnitSizes[3])
             ELSE IF EndsWith(size_str, <<" ", "G", "B">>) THEN Scaled(3, UnitSizes[4])
             ELSE Scaled(0, 1)

\* FileTableModel.sort with the four columns visible
sort(data, column, order) ==
    IF column >= 4 THEN data
    ELSE LET reverse == (order = "DescendingOrder")
             key == [k \in 1..Len(data) |->
                        CASE column = 0 -> Codes(Lower(data[k].name))
                          [] column = 1 -> <<_parse_size(data[k].size)>>
                          [] column = 2 -> Codes(Lower(data[k].file_type))
                          [] column = 3 -> Codes(data[k].date_modified)]
         IN  StableSort(data, key, reverse)

\* FileManager.replace_view_in_splitter on one view's place: old_view is in
\* the splitter if the splitter is its parent; QSplitter.replaceWidget gives
\* new_view the place and the parent, and leaves old_view without parent
replace_view_in_splitter(v, old_view, new_view) ==
    LET parent == IF old_view = "list_view" THEN v.list_view_parent
                  ELSE v.table_view_parent
    IN  IF parent = "pane_splitter"
        THEN IF new_view = "table_view"
             THEN [v EXCEPT !.shown = "table_view", !.list_view_parent = None,
                            !.table_view_parent = "pane_splitter"]
             ELSE [v EXCEPT !.shown = "list_view", !.list_view_parent = "pane_splitter",
                            !.table_view_parent = None]
        ELSE v

\* FileManager.restore_list_view on one view: the table view the field
\* refers to is replaced if it has a parent, and the field set to None
restore_list_view(v) ==
    IF v.table_view_parent = "pane_splitter"
    THEN [replace_view_in_splitter(v, "table_view", "list_view")
              EXCEPT !.table_view_parent = "no_table_view"]
    ELSE v

\* FileManager.apply_view_mode_to_view for one of the pane's two views: the
\* icon and the thumbnail branch restore the list view, and the thumbnail
\* branch loads the pane's current directory into its list models; the
\* column branch puts a new QTableView on the view's table model
\* (setSortingEnabled(True) sorts the model by the sort indicator of the new
\* header, which is on section 0 in descending order), stores it in the
\* view's field and replaces the list view by it
apply_view_mode_to_view(S, pane, kind, mode) ==
    IF mode = "thumbnail"
    THEN LET current_path == S.current_directory[pane]
             S1 == [S EXCEPT !.views[pane][kind] = restore_list_view(@)]
         IN  load_files_to_model(
                 load_folders_to_model([S1 EXCEPT !.loads = @ + 1], pane, current_path),
                 pane, current_path)
    ELSE IF mode = "column"
    THEN LET S1 == IF kind = "folder"
                   THEN [S EXCEPT !.folder_table_model[pane] = sort(@, 0, "DescendingOrder")]
                   ELSE [S EXCEPT !.file_table_model[pane] = sort(@, 0, "DescendingOrder")]
         IN  [S1 EXCEPT !.views[pane][kind] =
                  replace_view_in_splitter([@ EXCEPT !.table_view_parent = None],
                                           "list_view", "table_view")]
    ELSE [S EXCEPT !.views[pane][kind] = restore_list_view(@)]

\* FileManager.set_view_mode: the mode is applied to the folder view and to
\* the file view, and stored after that
set_view_mode(pane, mode) ==
    LET S1 == apply_view_mode_to_view(Fields, pane, "folder", mode)
        S2 == apply_view_mode_to_view(S1, pane, "file", mode)
        S3 == [S2 EXCEPT !.current_view_mode[pane] = mode]
    IN  /\ Commit(S3)
        /\ last_call' = Call("set_view_mode", FALSE, S3)

\* FileManager.add_bookmark: the pane's current directory goes to the log,
\* and to no collection
add_bookmark(pane) ==
    LET path == current_directory[pane]
        S == Fields
    IN  /\ Commit(S)
        /\ last_call' = Call("add_bookmark", FALSE, S)

\* QStandardItemModel.sort(column, order) of a list model, which has the one
\* column 0: the rows by the text of their items, compared as QString
\* compares (by code unit, the case counts), with std::stable_sort
StandardItemModelSort(rows, column, order) ==
    IF column # 0 THEN rows
    ELSE StableSort(rows, [k \in 1..Len(rows) |-> Codes(rows[k].text)],
                    order = "DescendingOrder")

\* FileManager.on_sort_changed: each of the four branches sorts the two
\* list models by column 0 in ascending order
on_sort_changed(S, pane, sort_type) ==
    IF sort_type \in {"Name", "Size", "Type", "Date"}
    THEN [S EXCEPT !.folder_model[pane] = StandardItemModelSort(@, 0, "AscendingOrder"),
                   !.file_model[pane] = StandardItemModelSort(@, 0, "AscendingOrder")]
    ELSE S

\* the user picks another entry of the pane's sort selector:
\* currentTextChanged runs on_sort_changed
SortComboChanged(pane, sort_type) ==
    LET S == on_sort_changed([Fields EXCEPT !.sort_combo[pane] = sort_type],
                             pane, sort_type)
    IN  /\ sort_type # sort_combo[pane]
        /\ Commit(S)
        /\ last_call' = Call("on_sort_changed", FALSE, S)

\* the rows whose text holds search_text when both are in lower case
Matching(rows, search_text) ==
    SelectSeq(rows, LAMBDA r : Contains(search_text, Lower(r.text)))

\* apply_filters with the left pane's models in the place of the pane's
apply_filters_left(S, pane) ==
    LET search_text == Lower(S.search_box[pane])
        current_path == S.current_directory[pane]
        S1 == load_files_to_model(
                  load_folders_to_model([S EXCEPT !.loads = @ + 1], "Left", current_path),
                  "Left", current_path)
    IN  IF search_text # << >>
        THEN [S1 EXCEPT !.folder_model["Left"] = Matching(@, search_text),
                        !.file_model["Left"] = Matching(@, search_text)]
        ELSE S1

\* FileManager.apply_filters: the pane's two list models are loaded from
\* its current directory again and the rows that do not hold the search
\* text are removed
apply_filters(S, pane) ==
    LET search_text == Lower(S.search_box[pane])
        current_path == S.current_directory[pane]
        S1 == load_files_to_model(
                  load_folders_to_model([S EXCEPT !.loads = @ + 1], pane, current_path),
                  pane, current_path)
    IN  IF search_text # << >>
        THEN [S1 EXCEPT !.folder_model[pane] = Matching(@, search_text),
                        !.file_model[pane] = Matching(@, search_text)]
        ELSE S1

\* the user edits the pane's search box: textChanged runs
\* FileManager.on_search_text_changed, which applies the filters
on_search_text_changed(pane, text) ==
    LET S == apply_filters([Fields EXCEPT !.search_box[pane] = text], pane)
    IN  /\ text # search_box[pane]
        /\ Commit(S)
        /\ last_call' = Call("on_search_text_changed", FALSE, S)

\* a click on a header section of a table view that stands in the pane's
\* splitter: QTableView sorts its model by the column
HeaderClicked(pane, table, column, order) ==
    LET S == IF table = "folder"
             THEN [Fields EXCEPT !.folder_table_model[pane] = sort(@, column, order)]
             ELSE [Fields EXCEPT !.file_table_model[pane] = sort(@, column, order)]
    IN  /\ views[pane][table].shown = "table_view"
        /\ Commit(S)
        /\ last_call' = Call("sort", FALSE, S)

\* FileManager.update_item_icon on one model: the first row of the path
\* gets the pixmap
UpdateIcon(rows, file_path, pixmap) ==
    LET at == {k \in 1..Len(rows) : rows[k].path = file_path}
    IN  IF at = {} THEN rows
        ELSE [rows EXCEPT ![CHOOSE k \in at : \A m \in at : k <= m].icon = pixmap]

\* on_thumbnail_loaded that keeps the path's entry in thumbnail_loaders
on_thumbnail_loaded_keeps(S, file_path, pixmap) ==
    LET S1 == [S EXCEPT !.thumbnail_cache = Put(@, file_path, pixmap),
                        !.file_model =
                            [pane \in Panes |-> UpdateIcon(@[pane], file_path, pixmap)]]
    IN  IF file_path \in DOMAIN S1.thumbnail_loaders
        THEN [S1 EXCEPT !.jobs[S1.thumbnail_loaders[file_path]].deleted = TRUE]
        ELSE S1

\* FileManager.on_thumbnail_loaded: the pixmap is cached and shown, and the
\* loader that is registered for the path now is deleted later and forgotten
on_thumbnail_loaded(S, file_path, pixmap) ==
    LET S1 == [S EXCEPT !.thumbnail_cache = Put(@, file_path, pixmap),
                        !.file_model =
                            [pane \in Panes |-> UpdateIcon(@[pane], file_path, pixmap)]]
    IN  IF file_path \in DOMAIN S1.thumbnail_loaders
        THEN [S1 EXCEPT !.jobs[S1.thumbnail_loaders[file_path]].deleted = TRUE,
                        !.thumbnail_loaders = Drop(@, file_path)]
        ELSE S1

\* ThumbnailLoader.run in its thread, up to the emit of thumbnail_loaded
ThumbnailLoaderRun(j) ==
    /\ jobs[j].state = "running"
    /\ \E cv2_ok \in BOOLEAN, frames \in FrameInputs, pix_ok \in BOOLEAN :
          jobs' = [jobs EXCEPT ![j].state = "emitted",
                               ![j].branch = run(jobs[j].path, cv2_ok, frames, pix_ok)]
    /\ last_call' = [NoCall EXCEPT !.op = "run"]
    /\ UNCHANGED <<current_directory, current_view_mode, folder_model,
                   file_model, folder_table_model, file_table_model,
                   folder_selector, search_box, sort_combo, views, history,
                   forward, bookmarks, thumbnail_cache, thumbnail_loaders,
                   mediaVars>>

\* the UI thread handles the thumbnail_loaded signal of loader j
ThumbnailLoaded(j) ==
    /\ jobs[j].state = "emitted"
    /\ LET S == on_thumbnail_loaded(
                    [Fields EXCEPT !.jobs[j].state = "delivered", !.jobs[j].branch = None],
                    jobs[j].path, Emitted(jobs[j].branch))
       IN  /\ Commit(S)
           /\ last_call' = Call("on_thumbnail_loaded", FALSE, S)

\* deleteLater() reached a loader whose thread had not emitted yet: the
\* QThread is destroyed while it runs, and its signal is never emitted
LoaderDestroyed(j) ==
    /\ jobs[j].state = "running"
    /\ jobs[j].deleted
    /\ jobs' = [jobs EXCEPT ![j].state = "destroyed"]
    /\ last_call' = [NoCall EXCEPT !.op = "destroyed"]
    /\ UNCHANGED <<current_directory, current_view_mode, folder_model,
                   file_model, folder_table_model, file_table_model,
                   folder_selector, search_box, sort_combo, views, history,
                   forward, bookmarks, thumbnail_cache, thumbnail_loaders,
                   mediaVars>>

(***************************************************************************)
(* The state after FileManager.__init__ and the specifications.            *)
(***************************************************************************)
ViewModes == {"icon", "column", "thumbnail"}

\* the two views of a pane
ViewKinds == {"folder", "file"}

\* a view after create_pane: the QListView stands in the pane's splitter
\* (shown is the widget at the view's place, list_view_parent the parent of
\* the QListView, table_view_parent the parent of the QTableView that the
\* field left/right_folder/file_table_view refers to)
ListViewShown ==
    [shown |-> "list_view", list_view_parent |-> "pane_splitter",
     table_view_parent |-> "no_table_view"]

\* the fields before __init__ loads the two panes
Constructed ==
    [current_directory |-> [pane \in Panes |-> Home],
     current_view_mode |-> [pane \in Panes |-> "icon"],
     folder_model |-> [pane \in Panes |-> << >>],
     file_model |-> [pane \in Panes |-> << >>],
     folder_table_model |-> [pane \in Panes |-> << >>],
     file_table_model |-> [pane \in Panes |-> << >>],
     folder_selector |-> [pane \in Panes |-> << >>],
     search_box |-> [pane \in Panes |-> << >>],
     sort_combo |-> [pane \in Panes |-> "Name"],
     views |-> [pane \in Panes |-> [kind \in ViewKinds |-> ListViewShown]],
     thumbnail_cache |-> << >>,
     thumbnail_loaders |-> << >>,
     jobs |-> << >>,
     hits |-> {},
     started |-> 0,
     icon |-> None,
     ret |-> None,
     loads |-> 0]

Init ==
    LET S == load_directory(load_directory(Constructed, "Left", Home), "Right", Home)
    IN  /\ widgets = << >>
        /\ global_media_manager =
               [current_media_player |-> 0, current_gif_movie |-> 0]
        /\ current_directory = S.current_directory
        /\ current_view_mode = S.current_view_mode
        /\ folder_model = S.folder_model
        /\ file_model = S.file_model
        /\ folder_table_model = S.folder_table_model
        /\ file_table_model = S.file_table_model
        /\ folder_selector = S.folder_selector
        /\ search_box = S.search_box
        /\ sort_combo = S.sort_combo
        /\ views = S.views
        /\ history = [pane \in Panes |-> << >>]
        /\ forward = [pane \in Panes |-> << >>]
        /\ bookmarks = [pane \in Panes |-> << >>]
        /\ thumbnail_cache = S.thumbnail_cache
        /\ thumbnail_loaders = S.thumbnail_loaders
        /\ jobs = S.jobs
        /\ last_call = NoCall

FolderClicked == \E pane \in Panes : \E row \in 1..Len(FolderRows(pane)) : on_folder_clicked(pane, row)
SelectorChanged == \E pane \in Panes, text \in TypedTexts : FolderSelectorEdited(pane, text)
GoUp == \E pane \in Panes : go_up(pane)
GoBack == \E pane \in Panes : go_back(pane)
GoForward == \E pane \in Panes : go_forward(pane)
SetListMode == \E pane \in Panes, mode \in {"icon", "column"} : set_view_mode(pane, mode)
SetColumnMode == \E pane \in Panes : set_view_mode(pane, "column")
SetThumbnailMode == \E pane \in Panes, mode \in {"icon", "thumbnail"} : set_view_mode(pane, mode)
SelectorToHome == \E pane \in Panes : FolderSelectorEdited(pane, Home)
WorkerStep == \E j \in 1..Len(jobs) : ThumbnailLoaderRun(j)
SignalStep == \E j \in 1..Len(jobs) : ThumbnailLoaded(j)
DestroyStep == \E j \in 1..Len(jobs) : LoaderDestroyed(j)

\* the navigation of the two panes in icon and column view
Next ==
    \/ FolderClicked
    \/ SelectorChanged
    \/ GoUp
    \/ GoBack
    \/ GoForward
    \/ SetListMode

Spec == Init /\ [][Next]_vars

\* the two panes in icon and thumbnail view with the thumbnail loaders
ThumbNext ==
    \/ FolderClicked
    \/ SelectorToHome
    \/ GoUp
    \/ SetThumbnailMode
    \/ WorkerStep
    \/ SignalStep
    \/ DestroyStep

ThumbSpec == Init /\ [][ThumbNext]_vars

\* the worker threads run and the UI thread's event loop handles the signals
\* they queued
FairThumbSpec ==
    /\ ThumbSpec
    /\ \A j \in 1..MaxJobs : WF_vars(j <= Len(jobs) /\ ThumbnailLoaderRun(j))
    /\ \A j \in 1..MaxJobs : WF_vars(j <= Len(jobs) /\ ThumbnailLoaded(j))

\* what the user types into a search box
SearchTexts == { << >>, <<"p">>, <<"*",".","p","n","g">> }

AddBookmark == \E pane \in Panes : add_bookmark(pane)
SearchTextChanged == \E pane \in Panes, text \in SearchTexts : on_search_text_changed(pane, text)
SortChanged == \E pane \in Panes, sort_type \in {"Name", "Size"} : SortComboChanged(pane, sort_type)

\* the toolbars of the two panes in the list views
PaneNext ==
    \/ FolderClicked
    \/ SelectorToHome
    \/ GoUp
    \/ SetColumnMode
    \/ AddBookmark
    \/ SearchTextChanged
    \/ SortChanged

PaneSpec == Init /\ [][PaneNext]_vars

SelectorToDocs == \E pane \in Panes : FolderSelectorEdited(pane, Docs)
SortChangedAny == \E pane \in Panes, sort_type \in {"Name", "Size", "Type", "Date"} : SortComboChanged(pane, sort_type)
TableSorted == \E pane \in Panes, table \in {"folder", "file"}, column \in 0..3, order \in {"AscendingOrder", "DescendingOrder"} : HeaderClicked(pane, table, column, order)

\* the sort selector of the filter toolbars
SortNext ==
    \/ SelectorToDocs
    \/ SortChangedAny

SortSpec == Init /\ [][SortNext]_vars

\* the headers of the column view's tables
TableNext ==
    \/ SelectorToDocs
    \/ SetColumnMode
    \/ TableSorted

TableSpec == Init /\ [][TableNext]_vars

\* the preview widgets with the global media manager
MediaNext ==
    \/ CreatePreviewWidget
    \/ TogglePlayback
    \/ ToggleAnimation

MediaSpec == Init /\ [][MediaNext]_vars


(***************************************************************************)
(* The claims.                                                             *)
(***************************************************************************)
\* the handles the manager holds
Current(mgr) == {mgr.current_media_player, mgr.current_gif_movie} \ {0}

\* C1: in every reachable state at most one audio, video or GIF playback is
\* running, over all the preview widgets that were created.
C1_AtMostOnePlayback == Cardinality(Running) <= 1

\* C2: the manager never holds a media player and a GIF movie at once; and
\* a step that registers a handle leaves exactly that handle registered and
\* every other handle that was registered before it stopped (a player in
\* StoppedState, a movie paused).
C2_RegisterReplaces ==
    /\ [](~(global_media_manager.current_media_player # 0
             /\ global_media_manager.current_gif_movie # 0))
    /\ [][last_call'.ret = "registered" =>
             /\ Current(global_media_manager') = {last_call'.arg}
             /\ \A h1 \in Current(global_media_manager) \ {last_call'.arg} :
                   /\ h1 \in last_call'.stopped
                   /\ widgets'[h1].state =
                          IF widgets[h1].kind = "gif" THEN "Paused" ELSE "StoppedState"]_vars

\* a handle was registered while another handle was, and that one was stopped
C2_Witness ==
    /\ last_call.ret = "registered"
    /\ \E h1 \in last_call.stopped :
          /\ h1 # last_call.arg
          /\ ~IsPlaying(widgets[h1])
          /\ IsPlaying(widgets[last_call.arg])

\* the loaders of the path whose signal the UI thread has not handled yet
InFlight(js, p) == {j \in 1..Len(js) : js[j].path = p /\ js[j].state \in {"running", "emitted"}}

\* the loaders that were ever started for the path
StartedFor(js, p) == {j \in 1..Len(js) : js[j].path = p}

\* C3: at any time at most one thumbnail job is in flight for a path.
C3_OneJobPerPath == \A p \in AllFiles : Cardinality(InFlight(jobs, p)) <= 1

\* C4: a step starts no loader for a path that is in the cache and adds no
\* entry for it to thumbnail_loaders; a request the handler answered from the
\* cache has put the cached pixmap on the item.
C4_CachedStartsNoJob ==
    [][\A p \in DOMAIN thumbnail_cache :
          /\ StartedFor(jobs', p) = StartedFor(jobs, p)
          /\ p \notin DOMAIN thumbnail_loaders => p \notin DOMAIN thumbnail_loaders'
          /\ p \in last_call'.hits =>
                \E pane \in Panes : \E k \in 1..Len(file_model'[pane]) :
                    /\ file_model'[pane][k].path = p
                    /\ file_model'[pane][k].icon = thumbnail_cache[p]]_vars

\* a handler asked for the thumbnail of a cached path
C4_Witness ==
    /\ last_call.hits # {}
    /\ last_call.hits \subseteq DOMAIN thumbnail_cache

\* C5: every path that is a key of the thumbnail cache before a step is a
\* key of it after the step.
C5_CacheOnlyGrows ==
    [][\A p \in DOMAIN thumbnail_cache : p \in DOMAIN thumbnail_cache']_vars

\* a pixmap is still cached after both panes left the directory of its file
C5_Witness ==
    /\ last_call.op \in {"on_folder_clicked", "go_up", "on_folder_selector_changed"}
    /\ \E p \in DOMAIN thumbnail_cache :
          \A pane \in Panes : current_directory[pane] # dirname(p)

\* the branches of run() in which the thumbnail could not be made
FailureBranches == {"exception", "null_pixmap"}

\* C6: when the signal of a loader that failed is handled, what it carries
\* differs from what any loader that did not fail emits, and the step
\* records nothing in the thumbnail cache.
C6_FailureNotCached ==
    [][\A j \in 1..Len(jobs) :
          (/\ jobs[j].state = "emitted"
           /\ jobs'[j].state = "delivered"
           /\ jobs[j].branch \in FailureBranches)
          => /\ \A b \in {"frame", "image", "default"} : Emitted(b) # Emitted(jobs[j].branch)
             /\ thumbnail_cache' = thumbnail_cache]_vars

\* C7: every loader that was started delivers its completion: its signal is
\* handled in the end (and then its path is cached and has no entry in
\* thumbnail_loaders).
C7_EveryJobDelivers ==
    \A j \in 1..MaxJobs :
        [](j <= Len(jobs) =>
              <>(/\ j <= Len(jobs)
                 /\ jobs[j].state = "delivered"
                 /\ jobs[j].path \in DOMAIN thumbnail_cache
                 /\ jobs[j].path \notin DOMAIN thumbnail_loaders))

NavigationOps == {"on_folder_clicked", "on_folder_selector_changed", "go_up"}

\* C8: a navigation to a path that is no directory leaves the current
\* directories and the folder and file models as they were.
C8_RejectedChangesNothing ==
    [][(last_call'.op \in NavigationOps /\ last_call'.rejected) =>
          UNCHANGED <<current_directory, folder_model, file_model,
                      folder_table_model, file_table_model>>]_vars

\* a pane that had gone to /h/s was sent to a path that does not exist
C8_Witness ==
    /\ last_call.op = "on_folder_selector_changed"
    /\ last_call.rejected
    /\ \E pane \in Panes :
          /\ folder_selector[pane] = <<"/","x">>
          /\ current_directory[pane] = Sub

\* C9: a navigation to a path that is no directory returns an error.
C9_RejectedReturnsError ==
    (last_call.op \in NavigationOps /\ last_call.rejected)
        => last_call.ret \in {"NotADirectory", "NotFound"}

\* C10: a navigation that makes another path current pushes the path that
\* was current onto the pane's history and clears the pane's forward stack.
C10_NavigationPushesHistory ==
    [][\A pane \in Panes :
          (/\ last_call'.op \in NavigationOps
           /\ current_directory'[pane] # current_directory[pane])
          => /\ history'[pane] = Append(history[pane], current_directory[pane])
             /\ forward'[pane] = << >>]_vars

\* C11: in every pane, after a navigation to a and a navigation to b,
\* go_back makes a current again and a go_forward after it makes b current
\* again.
C11_BackThenForward ==
    \A pane \in Panes : \A a, b \in Dirs :
        LET S1 == load_directory(Fields, pane, a)
            S2 == load_directory(S1, pane, b)
            S3 == GoBackFields(S2, pane)
            S4 == GoForwardFields(S3, pane)
        IN  /\ S3.current_directory[pane] = a
            /\ S4.current_directory[pane] = b

\* C12: go_up on a pane whose current path is its own parent changes no
\* current directory, no model and no selector, enumerates no directory and
\* returns as every other call of it does.
C12_GoUpAtRoot ==
    [][\A pane \in Panes :
          (go_up(pane) /\ dirname(current_directory[pane]) = current_directory[pane])
          => /\ UNCHANGED <<current_directory, folder_model, file_model,
                            folder_table_model, file_table_model, folder_selector>>
             /\ last_call'.loads = 0
             /\ last_call'.ret = None]_vars

\* go_up ran on a pane that shows the root
C12_Witness ==
    /\ last_call.op = "go_up"
    /\ last_call.loads = 0
    /\ \E pane \in Panes : current_directory[pane] = Root

\* C14: a step that changes a pane's current directory enumerates the
\* directory once.
C14_OneLoadPerNavigation ==
    [][\A pane \in Panes :
          current_directory'[pane] # current_directory[pane] => last_call'.loads = 1]_vars

\* C13: add_bookmark on a pane appends the pane's current directory to the
\* pane's bookmarks and leaves the bookmarks before it as they were.
C13_BookmarkAppended ==
    [][\A pane \in Panes :
          add_bookmark(pane)
          => bookmarks'[pane] = Append(bookmarks[pane], current_directory[pane])]_vars

\* a handler of the pane's toolbars and views ran (the handler that
\* last_call' names)
PaneStep(pane) ==
    \/ /\ last_call'.op = "on_folder_clicked"
       /\ \E row \in 1..Len(FolderRows(pane)) : on_folder_clicked(pane, row)
    \/ /\ last_call'.op = "on_folder_selector_changed"
       /\ FolderSelectorEdited(pane, Home)
    \/ /\ last_call'.op = "go_up"
       /\ go_up(pane)
    \/ /\ last_call'.op = "set_view_mode"
       /\ set_view_mode(pane, "column")
    \/ /\ last_call'.op = "on_sort_changed"
       /\ \E sort_type \in {"Name", "Size"} : SortComboChanged(pane, sort_type)
    \/ /\ last_call'.op = "on_search_text_changed"
       /\ \E text \in SearchTexts : on_search_text_changed(pane, text)

\* C15: a navigation, go_up, view-mode change, sort change or filter change
\* on one pane leaves the other pane's current directory, view mode and
\* folder and file models as they were.
C15_PanesIndependent ==
    [][\A pane \in Panes :
          PaneStep(pane)
          => \A other \in Panes \ {pane} :
                 UNCHANGED <<current_directory[other], current_view_mode[other],
                             folder_model[other], file_model[other],
                             folder_table_model[other], file_table_model[other],
                             views[other]>>]_vars

\* the two panes are in different directories and view modes, and the
\* filter of one of them has removed a row
C15_Witness ==
    /\ last_call.op = "on_search_text_changed"
    /\ current_directory["Left"] # current_directory["Right"]
    /\ current_view_mode["Left"] # current_view_mode["Right"]
    /\ \E pane \in Panes :
          /\ search_box[pane] # << >>
          /\ Len(file_model[pane]) < Len(FileNames(current_directory[pane]))

\* the name matches the pattern, in which * stands for any run of characters
\* and ? for any one character
RECURSIVE WildcardMatch(_, _)
WildcardMatch(pattern, name) ==
    IF pattern = << >> THEN name = << >>
    ELSE IF Head(pattern) = "*"
    THEN \/ WildcardMatch(Tail(pattern), name)
         \/ name # << >> /\ WildcardMatch(pattern, Tail(name))
    ELSE /\ name # << >>
         /\ Head(pattern) \in {"?", Head(name)}
         /\ WildcardMatch(Tail(pattern), Tail(name))

\* the names of the rows
RowTexts(rows) == [k \in 1..Len(rows) |-> rows[k].text]

\* C17: after the search text of a pane became a pattern with * or ?, the
\* pane shows the entries of its directory whose names match the pattern
\* when the case of the letters is ignored, and no other entry.
C17_WildcardFilter ==
    [][\A pane \in Panes : \A text \in SearchTexts :
          (on_search_text_changed(pane, text) /\ \E k \in 1..Len(text) : text[k] \in {"*", "?"})
          => LET Shown(names) ==
                     SelectSeq(names, LAMBDA n : WildcardMatch(Lower(text), Lower(n)))
             IN  /\ RowTexts(file_model'[pane]) = Shown(FileNames(current_directory[pane]))
                 /\ RowTexts(folder_model'[pane]) = Shown(DirNames(current_directory[pane]))]_vars

\* C16: every preview that was created for a file whose extension is .html
\* or .htm in any letter case is of the category 'html', and every preview
\* for a .gif file of the category 'gif'.
C16_HtmlAndGifPrecedence ==
    \A h \in Handles :
        LET file_ext == Lower(PathSuffix(widgets[h].path))
        IN  /\ file_ext \in html_exts => widgets[h].kind = "html"
            /\ file_ext = <<".","g","i","f">> => widgets[h].kind = "gif"

\* the key the sort selector's entry names, of a row of a list model
SortKey(sort_type, row) ==
    CASE sort_type = "Size" -> <<FileSize(row.path)>>
      [] sort_type = "Type" -> Codes(Lower(get_file_type(row.text)))
      [] sort_type = "Date" -> LastModified(row.path)
      [] sort_type = "Name" -> Codes(Lower(row.text))

\* the keys of the rows of a list model
SortKeys(sort_type, rows) == [k \in 1..Len(rows) |-> SortKey(sort_type, rows[k])]

\* no key stands before a smaller key
Ordered(keys) ==
    \A i, j \in 1..Len(keys) : i < j => ~KeyLess(keys[j], keys[i])

\* C18: after an entry of a pane's sort selector was chosen, the pane's
\* folder rows and file rows stand in the order of the chosen key: the size
\* for Size, the type for Type, the modification time for Date, the name for
\* Name.
C18_SortByChosenKey ==
    [][\A pane \in Panes : \A sort_type \in {"Name", "Size", "Type", "Date"} :
          SortComboChanged(pane, sort_type)
          => /\ Ordered(SortKeys(sort_type, folder_model'[pane]))
             /\ Ordered(SortKeys(sort_type, file_model'[pane]))]_vars

\* C19: after the file table of a pane was sorted by its Date column in
\* ascending order, no row of a later modification time stands before a row
\* of an earlier one.
C19_DateColumnByTimestamp ==
    [][\A pane \in Panes :
          HeaderClicked(pane, "file", 3, "AscendingOrder")
          => Ordered([k \in 1..Len(file_table_model'[pane]) |->
                          LastModified(file_table_model'[pane][k].path)])]_vars

\* the place of a row in a model
IndexOf(rows, r) == CHOOSE k \in 1..Len(rows) : rows[k] = r

\* C20: after Name was chosen in a pane's sort selector, the pane's file
\* rows stand in the order of their names in lower case, and rows whose
\* names in lower case are equal stand in the order they had before.
C20_NameSortCaseInsensitiveStable ==
    [][\A pane \in Panes :
          SortComboChanged(pane, "Name")
          => LET old == file_model[pane]
                 new == file_model'[pane]
             IN  /\ Ordered(SortKeys("Name", new))
                 /\ \A i, j \in 1..Len(new) :
                        (i < j /\ Lower(new[i].text) = Lower(new[j].text))
                        => IndexOf(old, new[i]) < IndexOf(old, new[j])]_vars

\* C21: the size key of every folder row is strictly below the size key of
\* every file row, whatever the file's size is, and FileTableModel.sort by
\* the Size column in ascending order puts the folder rows of a pane before
\* the file rows of a pane when it is given them file rows first.
C21_DirsBeforeFilesBySize ==
    \A p, q \in Panes :
        LET folders == folder_table_model[p]
            files == file_table_model[q]
            sorted == sort(files \o folders, 1, "AscendingOrder")
        IN  /\ \A i \in 1..Len(folders) : \A j \in 1..Len(files) :
                   _parse_size(folders[i].size) < _parse_size(files[j].size)
            /\ \A i, j \in 1..Len(sorted) :
                   (sorted[i].size = DirSizeText /\ sorted[j].size # DirSizeText) => i < j

\* a table was sorted while a pane shows a folder and a pane a file of 0 bytes
C21_Witness ==
    /\ last_call.op = "sort"
    /\ \E p, q \in Panes :
           /\ folder_table_model[p] # << >>
           /\ \E k \in 1..Len(file_table_model[q]) :
                  file_table_model[q][k].size = format_file_size(0)

\* C22: when the loader of a video file has run with cv2 at hand, it emits
\* the scaled frame if one of the first max_frames frames of the video has a
\* mean above 10 and a standard deviation above 5, and no frame's pixmap if
\* none has.
C22_FirstGoodFrameDelivered ==
    [][\A j \in 1..Len(jobs) : \A frames \in FrameInputs : \A pix_ok \in BOOLEAN :
          (/\ jobs[j].state = "running"
           /\ jobs'[j].state = "emitted"
           /\ Lower(PathSuffix(jobs[j].path)) \in video_exts
           /\ jobs'[j].branch = run(jobs[j].path, TRUE, frames, pix_ok))
          => (FirstGoodFrame(frames) # 0
                  <=> Emitted(jobs'[j].branch) = "scaled_frame")]_vars

\* C23: when set_view_mode(pane, 'thumbnail') has returned, every file of
\* the pane's current directory has its thumbnail in the cache or a loader
\* in flight.
C23_ThumbnailModeLoadsThumbnails ==
    [][\A pane \in Panes :
          set_view_mode(pane, "thumbnail")
          => \A k \in 1..Len(FileNames(current_directory[pane])) :
                 LET p == EntryPath(current_directory[pane],
                                    FileNames(current_directory[pane])[k])
                 IN  p \in DOMAIN thumbnail_cache' \/ InFlight(jobs', p) # {}]_vars

\* C24: a folder click or a go_up in the right pane that loaded a directory
\* with files in it has asked for thumbnails (started a loader or taken a
\* pixmap from the cache) if and only if the right pane is in thumbnail view.
C24_OwnViewModeDecides ==
    [][(/\ \/ go_up("Right")
           \/ \E row \in 1..Len(FolderRows("Right")) : on_folder_clicked("Right", row)
        /\ last_call'.loads > 0
        /\ FileNames(current_directory'["Right"]) # << >>)
       => ((Len(jobs') > Len(jobs) \/ last_call'.hits # {})
              <=> current_view_mode["Right"] = "thumbnail")]_vars

\* the texts of the rows, as a set
RowTextSet(rows) == {rows[k].text : k \in 1..Len(rows)}

\* the names that hold the text when the case of the letters is ignored
NamesHolding(names, text) ==
    {names[k] : k \in {i \in 1..Len(names) : Contains(Lower(text), Lower(names[i]))}}

\* C25: while the search box of a pane holds a text, the pane's folder rows
\* and file rows are the entries of its current directory whose names hold
\* the text when the case of the letters is ignored.
C25_ListingReflectsSearch ==
    \A pane \in Panes :
        search_box[pane] # << >>
        => /\ RowTextSet(folder_model[pane])
                  = NamesHolding(DirNames(current_directory[pane]), search_box[pane])
           /\ RowTextSet(file_model[pane])
                  = NamesHolding(FileNames(current_directory[pane]), search_box[pane])

\* C26: when set_view_mode(pane, 'icon') or set_view_mode(pane, 'thumbnail')
\* has returned, the list view stands at the place of each of the pane's two
\* views in the splitter, and no table view.
C26_ListViewsRestored ==
    [][\A pane \in Panes :
          (/\ last_call'.op = "set_view_mode"
           /\ \E mode \in {"icon", "thumbnail"} : set_view_mode(pane, mode))
          => \A kind \in ViewKinds : views'[pane][kind].shown = "list_view"]_vars

\* C27: no path is a key of the thumbnail cache and a key of
\* thumbnail_loaders at the same time.
C27_CacheAndLoadersDisjoint ==
    DOMAIN thumbnail_cache \cap DOMAIN thumbnail_loaders = {}

\* the completion of a loader was handled while a second loader for the same
\* path was still in flight
C27_Witness ==
    /\ last_call.op = "on_thumbnail_loaded"
    /\ \E p \in DOMAIN thumbnail_cache : InFlight(jobs, p) # {}

\* C28: whenever go_up has changed the current path of a pane, the new path
\* denotes the parent of the directory the old path denoted, which is
\* another directory.
C28_GoUpReachesParent ==
    [][\A pane \in Panes :
          (/\ last_call'.op = "go_up"
           /\ go_up(pane)
           /\ current_directory'[pane] # current_directory[pane])
          => LET old == StripSeparators(current_directory[pane])
                 new == StripSeparators(current_directory'[pane])
             IN  new # old /\ new = dirname(old)]_vars

\* C29: every preview that was asked for a file whose name ends in an
\* extension of the archive table (.zip, .tar, .tar.gz, .tgz, .rar, .7z) is
\* of the category 'archive'.
C29_ArchiveExtensionsReachable ==
    \A h \in Handles :
        (\E ext \in archive_exts : EndsWith(Lower(PathName(widgets[h].path)), ext))
        => widgets[h].kind = "archive"

\* C30: when toggle_playback resumes a paused player that is the manager's
\* current media player, no stop is issued on that player: it goes from
\* PausedState to PlayingState without passing StoppedState.
C30_ResumeWithoutStop ==
    [][\A h \in Handles :
          (/\ last_call'.op = "toggle_playback"
           /\ widgets[h].kind \in {"video", "audio"}
           /\ widgets[h].state = "PausedState"
           /\ global_media_manager.current_media_player = h
           /\ toggle_playback(h))
          => h \notin last_call'.stopped]_vars

====
